---- MODULE Spec2Model ----
(***************************************************************************)
(* Model of kbbi-js: KBBIScraper.scrapeWord (the two-phase fetch-and-merge *)
(* loop), the parts of KBBIParser it calls (parseEntry, parseMirip,        *)
(* checkAuthentication, parseDetailsPage) and the BrowserManager session   *)
(* life cycle.                                                             *)
(*                                                                         *)
(* A document is modelled by the features the parser's selectors read:     *)
(* a search document by its entry headings, suggestion texts, logout       *)
(* control and challenge markers; a details document by the sequence of    *)
(* its .row and h4 elements.  JavaScript objects are functions from key    *)
(* strings to values, so that "has the key" is DOMAIN membership.          *)
(***************************************************************************)
EXTENDS Integers, Sequences, FiniteSets, TLC

\* ------------------------------------------------------------------ bounds
MaxHeadings == 2

\* longest list of meanings after a heading
MaxItems == 3

\* most related-word sections after a heading
MaxSections == 2

\* most rows and section headings in a details document
MaxElems == 5

\* --------------------------------------------------------------- constants
NULL == "null"
DelayMs == 500

\* ------------------------------------------------------------- JS objects
EmptyObj == <<>>

Has(obj, k) == k \in DOMAIN obj

Put(obj, k, v) == [x \in (DOMAIN obj) \cup {k} |-> IF x = k THEN v ELSE obj[x]]

\* { ...target, ...src }: own keys of src are copied over target, in order
SpreadStubWins(target, src) ==
  [k \in (DOMAIN target) \cup (DOMAIN src) |->
     IF k \in DOMAIN target THEN target[k] ELSE src[k]]

SpreadDetailOnly(target, src) ==
  IF DOMAIN target = {} THEN src ELSE [k \in DOMAIN src |-> src[k]]

Spread(target, src) ==
  [k \in (DOMAIN target) \cup (DOMAIN src) |->
     IF k \in DOMAIN src THEN src[k] ELSE target[k]]

\* ------------------------------------------------- search-page extractors
\* variant that keeps the text of the heading's child elements
extractTextWithChildren(h) ==
  IF h.italic # NULL THEN h.italic
  ELSE IF h.text = "kata" /\ h.sup = "1" THEN "kata1"
  ELSE h.text

\* extractText: an <i> child's text, else the heading's own text
extractText(h) == IF h.italic # NULL THEN h.italic ELSE h.text

\* extractNumber: text of the <sup> child, else ""
extractNumber(h) == IF h.sup # NULL THEN h.sup ELSE ""

\* extractId: edit link eid, else view link number, else parent link number
extractId(h) ==
  IF h.editEid # NULL THEN h.editEid
  ELSE IF h.viewId # NULL THEN h.viewId
  ELSE IF h.parentId # NULL THEN h.parentId
  ELSE NULL

\* extractRootWord: page-level "Kata Dasar" list first, else the heading's
\* .rootword link; null when neither is present
extractRootWord(doc, h) ==
  IF Len(doc.kataDasar) > 0 THEN doc.kataDasar[1]
  ELSE IF h.rootword # NULL THEN h.rootword
  ELSE NULL

\* parseEntry: the reduced (stub) extractor; null when no id was found
parseEntryKeepsNoId(doc, h) ==
  [isNull |-> FALSE,
   obj |-> [nama |-> extractText(h), nomor |-> extractNumber(h),
            id |-> extractId(h), rootWord |-> extractRootWord(doc, h)]]

parseEntry(doc, h) ==
  IF extractId(h) = NULL
  THEN [isNull |-> TRUE, obj |-> EmptyObj]
  ELSE [isNull |-> FALSE,
        obj |-> [nama |-> extractText(h), nomor |-> extractNumber(h),
                 id |-> extractId(h), rootWord |-> extractRootWord(doc, h)]]

\* variant that extracts no suggestion
parseMiripNone(doc) == <<>>

\* parseMirip: texts of the two suggestion locations, in document order
parseMirip(doc) == doc.suggestions

\* checkAuthentication: a link or button containing "Keluar"
checkAuthentication(doc) == doc.logout

\* entryHeadings.each(... if (entry) entries.push(entry))
RECURSIVE CollectEntries(_, _)
CollectEntries(doc, hs) ==
  IF hs = <<>> THEN <<>>
  ELSE LET e == parseEntry(doc, Head(hs))
       IN  IF e.isNull THEN CollectEntries(doc, Tail(hs))
           ELSE <<e.obj>> \o CollectEntries(doc, Tail(hs))

\* ------------------------------------------------------ details-page parser
\* Elements of a details document, in document order
Row(label, value) == [kind |-> "row", label |-> label, value |-> value, m |-> 0, n |-> 0]

\* <h4>Contoh #m-n</h4>
ContohH4(m, n) == [kind |-> "h4", label |-> "Contoh #", value |-> "", m |-> m, n |-> n]

\* value.match(/(.+?)\s*\(Eid:\s*(\d+)\)/): the name before "(Eid: N)", else
\* the raw value
ParseIndukKata(value) ==
  CASE value = "kasih (Eid: 7)" -> "kasih"
    [] OTHER -> value

\* /^(\w+)\s+\((.*?)\)$/ on the whole value, else split on "," and match each
\* part; a part that does not match gives {kode: part, nama: ""}
ParseKelasKata(value) ==
  CASE value = "a (Adjektiva)" -> <<[kode |-> "a", nama |-> "Adjektiva"]>>
    [] value = "n, v" -> <<[kode |-> "n", nama |-> ""], [kode |-> "v", nama |-> ""]>>
    [] OTHER -> <<[kode |-> value, nama |-> ""]>>

\* exampleText.replace(/\[(.*?)\]/g, '$1').trim()
StripBrackets(text) ==
  CASE text = "[cinta] kasih" -> "cinta kasih"
    [] OTHER -> text

\* toSuperscript on the digits used here
toSuperscript(number) ==
  CASE number = "" -> ""
    [] number = "1" -> "^1"
    [] number = "2" -> "^2"
    [] OTHER -> number

\* result.nama.includes(' ')
IncludesSpace(nama) == nama \in {"cinta kasih"}

\* variant that attaches classes and examples to the first meaning
ApplyRowFirstMeaning(result, row) ==
  IF row.value = "" \/ row.value = "(Tidak tersedia)" THEN result
  ELSE
    CASE row.label = "Eid" -> Put(result, "id", row.value)
      [] row.label = "Entri" -> Put(result, "nama", row.value)
      [] row.label = "Id Homonim" -> Put(result, "nomor", row.value)
      [] row.label = "Jenis Entri" -> Put(result, "jenis", row.value)
      [] row.label = "Induk Kata" -> Put(result, "rootWord", ParseIndukKata(row.value))
      [] row.label = "Makna" ->
           LET old == IF Has(result, "makna") THEN result["makna"] ELSE <<>>
           IN  Put(result, "makna",
                   Append(old, [definisi |-> row.value, kelasKata |-> <<>>, contoh |-> <<>>]))
      [] row.label = "Kelas Kata" ->
           IF Has(result, "makna")
           THEN LET mk == result["makna"]
                    last == mk[1]
                IN  Put(result, "makna",
                        [mk EXCEPT ![1] =
                           [last EXCEPT !.kelasKata = ParseKelasKata(row.value)]])
           ELSE result
      [] row.label = "Contoh" ->
           IF Has(result, "makna")
           THEN LET mk == result["makna"]
                    last == mk[1]
                IN  Put(result, "makna",
                        [mk EXCEPT ![1] =
                           [last EXCEPT !.contoh =
                              Append(last.contoh,
                                     [nomor |-> Len(last.contoh) + 1, teks |-> row.value])]])
           ELSE result
      [] OTHER -> result

\* One iteration of this.$('.row').each(...)
ApplyRow(result, row) ==
  IF row.value = "" \/ row.value = "(Tidak tersedia)" THEN result
  ELSE
    CASE row.label = "Eid" -> Put(result, "id", row.value)
      [] row.label = "Entri" -> Put(result, "nama", row.value)
      [] row.label = "Id Homonim" -> Put(result, "nomor", row.value)
      [] row.label = "Jenis Entri" -> Put(result, "jenis", row.value)
      [] row.label = "Induk Kata" -> Put(result, "rootWord", ParseIndukKata(row.value))
      [] row.label = "Makna" ->
           LET old == IF Has(result, "makna") THEN result["makna"] ELSE <<>>
           IN  Put(result, "makna",
                   Append(old, [definisi |-> row.value, kelasKata |-> <<>>, contoh |-> <<>>]))
      [] row.label = "Kelas Kata" ->
           IF Has(result, "makna")
           THEN LET mk == result["makna"]
                    last == mk[Len(mk)]
                IN  Put(result, "makna",
                        [mk EXCEPT ![Len(mk)] =
                           [last EXCEPT !.kelasKata = ParseKelasKata(row.value)]])
           ELSE result
      [] row.label = "Contoh" ->
           IF Has(result, "makna")
           THEN LET mk == result["makna"]
                    last == mk[Len(mk)]
                IN  Put(result, "makna",
                        [mk EXCEPT ![Len(mk)] =
                           [last EXCEPT !.contoh =
                              Append(last.contoh,
                                     [nomor |-> Len(last.contoh) + 1, teks |-> row.value])]])
           ELSE result
      [] OTHER -> result

RECURSIVE ProcessRows(_, _)
ProcessRows(elems, result) ==
  IF elems = <<>> THEN result
  ELSE IF Head(elems).kind = "row"
       THEN ProcessRows(Tail(elems), ApplyRow(result, Head(elems)))
       ELSE ProcessRows(Tail(elems), result)

\* $(h4).nextUntil('h4', '.row'): the first "Contoh" row before the next h4
RECURSIVE SectionText(_)
SectionText(elems) ==
  IF elems = <<>> THEN ""
  ELSE IF Head(elems).kind = "h4" THEN ""
  ELSE IF Head(elems).label = "Contoh" THEN Head(elems).value
  ELSE SectionText(Tail(elems))

\* meaning.contoh.findIndex(ex => ex.nomor === exampleNum); 0 when none
FindExample(contoh, n) ==
  IF \E i \in 1..Len(contoh) : contoh[i].nomor = n
  THEN CHOOSE i \in 1..Len(contoh) :
         contoh[i].nomor = n /\ \A j \in 1..(i - 1) : contoh[j].nomor # n
  ELSE 0

\* variant that appends without looking for an example of the same ordinal
ApplySectionAlwaysAppends(st, h4, rest) ==
  IF st.raised THEN st
  ELSE IF ~Has(st.obj, "makna") THEN st
  ELSE IF h4.m > Len(st.obj["makna"]) THEN st
  ELSE IF h4.m < 1 THEN [raised |-> TRUE, obj |-> st.obj]
  ELSE
    LET mk == st.obj["makna"]
        meaning == mk[h4.m]
        exampleText == SectionText(rest)
        cleanedText == StripBrackets(exampleText)
        existingIndex == 0
        newContoh ==
          IF existingIndex >= 1
          THEN [meaning.contoh EXCEPT ![existingIndex] = [@ EXCEPT !.teks = cleanedText]]
          ELSE Append(meaning.contoh, [nomor |-> h4.n, teks |-> cleanedText])
    IN  IF exampleText # "" /\ exampleText # "(Tidak tersedia)"
        THEN [raised |-> FALSE,
              obj |-> Put(st.obj, "makna",
                          [mk EXCEPT ![h4.m] = [meaning EXCEPT !.contoh = newContoh]])]
        ELSE st

\* One iteration of the "Contoh #M-N" loop.  st = [raised, obj]
ApplySection(st, h4, rest) ==
  IF st.raised THEN st
  ELSE IF ~Has(st.obj, "makna") THEN st
  ELSE IF h4.m > Len(st.obj["makna"]) THEN st
  ELSE IF h4.m < 1 THEN [raised |-> TRUE, obj |-> st.obj]
  ELSE
    LET mk == st.obj["makna"]
        meaning == mk[h4.m]
        exampleText == SectionText(rest)
        cleanedText == StripBrackets(exampleText)
        existingIndex == FindExample(meaning.contoh, h4.n)
        newContoh ==
          IF existingIndex >= 1
          THEN [meaning.contoh EXCEPT ![existingIndex] = [@ EXCEPT !.teks = cleanedText]]
          ELSE Append(meaning.contoh, [nomor |-> h4.n, teks |-> cleanedText])
    IN  IF exampleText # "" /\ exampleText # "(Tidak tersedia)"
        THEN [raised |-> FALSE,
              obj |-> Put(st.obj, "makna",
                          [mk EXCEPT ![h4.m] = [meaning EXCEPT !.contoh = newContoh]])]
        ELSE st

RECURSIVE ProcessSections(_, _)
ProcessSections(elems, st) ==
  IF elems = <<>> THEN st
  ELSE IF Head(elems).kind = "h4"
       THEN ProcessSections(Tail(elems), ApplySection(st, Head(elems), Tail(elems)))
       ELSE ProcessSections(Tail(elems), st)

\* root word from the title element when the rows gave none
TitleRootWord(page, result) ==
  IF ~Has(result, "rootWord") /\ page.titleRoot # NULL
  THEN Put(result, "rootWord", page.titleRoot \o toSuperscript(page.titleSup))
  ELSE result

\* compound-word handling: a name with a space and no usable meanings
CompoundFallback(page, result) ==
  IF Has(result, "nama") /\ IncludesSpace(result["nama"])
     /\ (~Has(result, "makna")
         \/ \A i \in 1..Len(result["makna"]) : result["makna"][i].definisi = "->")
     /\ Len(page.compound) > 0
  THEN Put(result, "makna", page.compound)
  ELSE result

\* variant without the final "keys > 0 ? result : null"
parseDetailsPageNoNull(page) ==
  LET rows == ProcessRows(page.body, EmptyObj)
      secs == ProcessSections(page.body, [raised |-> FALSE, obj |-> rows])
      result == CompoundFallback(page, TitleRootWord(page, secs.obj))
  IN  IF secs.raised THEN [raised |-> TRUE, isNull |-> FALSE, obj |-> EmptyObj]
      ELSE [raised |-> FALSE, isNull |-> FALSE, obj |-> result]

\* parseDetailsPage: [raised, isNull, obj]
parseDetailsPage(page) ==
  LET rows == ProcessRows(page.body, EmptyObj)
      secs == ProcessSections(page.body, [raised |-> FALSE, obj |-> rows])
      result == CompoundFallback(page, TitleRootWord(page, secs.obj))
  IN  IF secs.raised THEN [raised |-> TRUE, isNull |-> FALSE, obj |-> EmptyObj]
      ELSE IF DOMAIN result = {} THEN [raised |-> FALSE, isNull |-> TRUE, obj |-> EmptyObj]
      ELSE [raised |-> FALSE, isNull |-> FALSE, obj |-> result]

\* ---------------------------------------- search-results parser: full entries
\* String.prototype.includes('Usulkan makna baru')
IncludesPropose(text) == text \in {"Usulkan makna baru", "n Usulkan makna baru"}

\* Number.prototype.toString for the list positions that occur
toString(n) == <<"1", "2", "3", "4", "5", "6", "7", "8">>[n]

\* Array.prototype.includes
Includes(list, x) == \E i \in 1..Len(list) : list[i] = x

\* entryName.replace(/\s*\u00B9|\u00B2|.../g, ""): "kata^1" stands for the
\* word followed by the character U+00B9
StripSuperscripts(text) == IF text = "kata^1" THEN "kata" ELSE text

\* title.split(':')[0].trim()
TitleName(title) ==
  CASE title = "Nomina: kata benda" -> "Nomina"
    [] title = "Verba: kata kerja" -> "Verba"
    [] OTHER -> title

\* the switch of extractWordClasses: class and domain codes without a title
WordClassName(code) ==
  CASE code = "n" -> "Nomina"
    [] code = "v" -> "Verba"
    [] code = "a" -> "Adjektiva"
    [] code = "adv" -> "Adverbia"
    [] code = "num" -> "Numeralia"
    [] code = "p" -> "Partikel"
    [] code = "pron" -> "Pronomina"
    [] code = "ki" -> "kiasan"
    [] code = "Jp" -> "Jepang"
    [] code = "sing" -> "singkatan"
    [] code = "Komp" -> "Komputer"
    [] code = "Prw" -> "Pariwisata"
    [] code = "Kap" -> "Perkapalan"
    [] OTHER -> ""

\* extractWordClasses, method 1: red spans with a title
SpanClasses(spans) ==
  LET named == SelectSeq(spans, LAMBDA sp : sp.code # "" /\ sp.title # "")
  IN  [i \in 1..Len(named) |-> [kode |-> named[i].code, nama |-> TitleName(named[i].title)]]

\* extractWordClasses, method 2: the tokens of the red element's text
RedClasses(item) ==
  LET parts == SelectSeq(item.red, LAMBDA t : t \notin {"", ",", ";", "(", ")"})
  IN  [i \in 1..Len(parts) |->
         [kode |-> parts[i],
          nama |-> IF item.spans # <<>> THEN TitleName(item.spans[1].title)
                   ELSE WordClassName(parts[i])]]

extractWordClasses(item) ==
  IF SpanClasses(item.spans) # <<>> THEN SpanClasses(item.spans) ELSE RedClasses(item)

\* the clean-up of extractDefinition: whitespace runs, a leading colon, a
\* trailing semicolon or colon, leading dashes and bullets
CleanDefinition(plain) ==
  CASE plain = ": rasa  sayang;" -> "rasa sayang"
    [] plain = "- " -> ""
    [] plain = ":" -> ""
    [] OTHER -> plain

\* extractDefinition: the item's text without its grey, red and button
\* elements, cleaned; the sentinel when nothing remains
extractDefinition(item) ==
  IF CleanDefinition(item.plain) = "" THEN "Tidak tersedia" ELSE CleanDefinition(item.plain)

\* text.substring(text.indexOf(':') + 1).split(';'), trimmed; empty without
\* a colon
SplitAfterColon(text) ==
  CASE text = "suka sekali: cinta kasih; ; cinta monyet" -> <<"cinta kasih", "", "cinta monyet">>
    [] OTHER -> <<>>

\* examples.push({nomor: i + 1, teks}) for the non-empty texts
Numbered(texts) ==
  SelectSeq([i \in 1..Len(texts) |-> [nomor |-> i, teks |-> texts[i]]],
            LAMBDA e : e.teks # "")

\* extractExamples: the grey elements, else the text after the first colon
extractExamples(item) ==
  IF item.grey # <<>> THEN Numbered(item.grey) ELSE Numbered(SplitAfterColon(item.text))

\* variant that numbers every meaning "1"
ItemMeaningUnnumbered(item, i) ==
  [nomor |-> "1", kelasKata |-> extractWordClasses(item),
   definisi |-> extractDefinition(item), contoh |-> extractExamples(item)]

\* the Meaning pushed for the list item at 1-based position i
ItemMeaning(item, i) ==
  [nomor |-> toString(i), kelasKata |-> extractWordClasses(item),
   definisi |-> extractDefinition(item), contoh |-> extractExamples(item)]

\* $list.children('li').each((i, li) => ...) from position i on
RECURSIVE ListMeanings(_, _)
ListMeanings(items, i) ==
  IF i > Len(items) THEN <<>>
  ELSE IF IncludesPropose(items[i].text) THEN ListMeanings(items, i + 1)
  ELSE IF extractDefinition(items[i]) = "" THEN ListMeanings(items, i + 1)
  ELSE <<ItemMeaning(items[i], i)>> \o ListMeanings(items, i + 1)

\* text.match(/\b(n|v|a|adv|num|p|pron)\b/): the first class token, if any
ClassMatch(text) ==
  CASE text = "n" -> "n"
    [] text = "a sangat suka" -> "a"
    [] OTHER -> NULL

\* text.replace(classMatch[0], '').trim()
WithoutClass(text) ==
  CASE text = "n" -> ""
    [] text = "a sangat suka" -> "sangat suka"
    [] OTHER -> text

\* the switch of the plain-text fallback
PlainClassName(code) ==
  CASE code = "n" -> "Nomina"
    [] code = "v" -> "Verba"
    [] code = "a" -> "Adjektiva"
    [] code = "adv" -> "Adverbia"
    [] code = "num" -> "Numeralia"
    [] code = "p" -> "Partikel"
    [] code = "pron" -> "Pronomina"
    [] OTHER -> ""

\* extractMeaningsDirectly without a list: one meaning from the text that
\* follows the heading
PlainTextMeanings(content) ==
  IF content = "" \/ IncludesPropose(content) THEN <<>>
  ELSE LET code == ClassMatch(content)
       IN  <<[nomor |-> "1",
              kelasKata |-> IF code # NULL /\ PlainClassName(code) # ""
                            THEN <<[kode |-> code, nama |-> PlainClassName(code)]>>
                            ELSE <<>>,
              definisi |-> IF code # NULL THEN WithoutClass(content) ELSE content,
              contoh |-> <<>>]>>

\* extractCompoundWordMeanings, per item: the item's text without the text of
\* its red elements, cleaned of a leading or trailing colon or semicolon
CompoundText(item) ==
  CASE item.text = "a suka sekali" -> "suka sekali"
    [] item.text = "n : rasa  sayang; cinta kasih" -> "rasa  sayang; cinta kasih"
    [] OTHER -> item.text

\* $ol.find('li').each((i, li) => ...) from position i on; none of the list
\* items here has a colon left in its text or an <i>ki</i> element
RECURSIVE CompoundListMeanings(_, _)
CompoundListMeanings(items, i) ==
  IF i > Len(items) THEN <<>>
  ELSE IF IncludesPropose(items[i].text) THEN CompoundListMeanings(items, i + 1)
  ELSE IF CompoundText(items[i]) = "" THEN CompoundListMeanings(items, i + 1)
  ELSE <<[nomor |-> i, kelasKata |-> extractWordClasses(items[i]),
          definisi |-> CompoundText(items[i]), contoh |-> <<>>, kiasan |-> FALSE]>>
       \o CompoundListMeanings(items, i + 1)

\* extractCompoundWordMeanings($h2): the items of $h2.nextAll('ol').first()
extractCompoundWordMeanings(h) == CompoundListMeanings(h.olAfter, 1)

\* variant that goes on to the compound-word handling when the entry name has
\* a space and the text gave nothing
extractMeaningsDirectlyThenCompound(h) ==
  IF h.hasList THEN ListMeanings(h.items, 1)
  ELSE IF PlainTextMeanings(h.content) = <<>> /\ IncludesSpace(extractText(h))
  THEN extractCompoundWordMeanings(h)
  ELSE PlainTextMeanings(h.content)

\* extractMeaningsDirectly: the first list after the heading, else the text
extractMeaningsDirectly(h) ==
  IF h.hasList THEN ListMeanings(h.items, 1) ELSE PlainTextMeanings(h.content)

\* extractEntryType: $h2.nextAll('small[style*="color:saddlebrown"]').first(),
\* looked up among all following siblings
RECURSIVE extractEntryType(_, _)
extractEntryType(hs, k) ==
  IF k > Len(hs) THEN NULL
  ELSE IF hs[k].small # NULL THEN hs[k].small
  ELSE extractEntryType(hs, k + 1)

\* extractEtymology: the document-wide "Etimologi: [...]" pattern;
\* [isNull, obj]
extractEtymology(doc) ==
  IF doc.etymology.found
  THEN [isNull |-> FALSE,
        obj |-> [text |-> doc.etymology.text, languages |-> doc.etymology.languages]]
  ELSE [isNull |-> TRUE, obj |-> [text |-> "", languages |-> <<>>]]

RelatedTypes == {"kataTurunan", "gabunganKata", "peribahasa", "idiom"}

\* the if / else-if chain on headingText.includes(...)
RelatedType(title) ==
  CASE title = "Kata Turunan" -> "kataTurunan"
    [] title = "Gabungan Kata" -> "gabunganKata"
    [] title = "Peribahasa" -> "peribahasa"
    [] title = "Idiom" -> "idiom"
    [] OTHER -> NULL

\* $h2.nextAll('h4'): the sections of this heading and of every later one
RECURSIVE SectionsAfter(_, _)
SectionsAfter(hs, k) ==
  IF k > Len(hs) THEN <<>> ELSE hs[k].sections \o SectionsAfter(hs, k + 1)

\* $container.find('a').each(...): push the texts not yet in the list
RECURSIVE AddLinks(_, _)
AddLinks(list, links) ==
  IF links = <<>> THEN list
  ELSE AddLinks(IF Head(links) # "" /\ ~Includes(list, Head(links))
                THEN Append(list, Head(links)) ELSE list,
                Tail(links))

\* $sections.each(...)
RECURSIVE CollectRelated(_, _)
CollectRelated(secs, related) ==
  IF secs = <<>> THEN related
  ELSE LET s == Head(secs)
           ty == RelatedType(s.title)
       IN  CollectRelated(Tail(secs),
                          IF ty # NULL /\ s.hasUl
                          THEN [related EXCEPT ![ty] = AddLinks(related[ty], s.links)]
                          ELSE related)

\* the four categories, all empty
NoRelated == [t \in RelatedTypes |-> <<>>]

\* variant that returns the object even when every category is empty
extractRelatedNeverNull(doc, k) ==
  [isNull |-> FALSE, obj |-> CollectRelated(SectionsAfter(doc.headings, k), NoRelated)]

\* extractRelated: [isNull, obj]
extractRelated(doc, k) ==
  LET related == CollectRelated(SectionsAfter(doc.headings, k), NoRelated)
  IN  IF \E t \in RelatedTypes : related[t] # <<>>
      THEN [isNull |-> FALSE, obj |-> related]
      ELSE [isNull |-> TRUE, obj |-> NoRelated]

\* parseEntryDirectly for the k-th entry heading: [isNull, obj]
parseEntryDirectly(doc, k) ==
  LET h == doc.headings[k]
      entryName == extractText(h)
      base == Put(Put(Put(Put(EmptyObj, "id", extractId(h)),
                          "nama", StripSuperscripts(entryName)),
                      "nomor", extractNumber(h)),
                  "makna", IF h.hasList THEN ListMeanings(h.items, 1)
                           ELSE extractMeaningsDirectly(h))
      entryType == extractEntryType(doc.headings, k)
      typed == IF entryType # NULL /\ entryType # "" THEN Put(base, "jenis", entryType) ELSE base
      rootWord == extractRootWord(doc, h)
      rooted == IF rootWord # NULL /\ rootWord # "" THEN Put(typed, "rootWord", rootWord) ELSE typed
      etymology == extractEtymology(doc)
      withEtym == IF etymology.isNull THEN rooted ELSE Put(rooted, "etimologi", etymology.obj)
      related == extractRelated(doc, k)
  IN  IF entryName = "" THEN [isNull |-> TRUE, obj |-> EmptyObj]
      ELSE [isNull |-> FALSE,
            obj |-> IF related.isNull THEN withEtym ELSE Put(withEtym, "terkait", related.obj)]

\* entryHeadings.each(... if (entry) entries.push(entry)) from heading k on
RECURSIVE DirectEntries(_, _)
DirectEntries(doc, k) ==
  IF k > Len(doc.headings) THEN <<>>
  ELSE LET e == parseEntryDirectly(doc, k)
       IN  IF e.isNull THEN DirectEntries(doc, k + 1)
           ELSE <<e.obj>> \o DirectEntries(doc, k + 1)

\* parseEntries: [raised, entries, hasMirip, mirip]; mirip is only part of
\* the returned object in the not-found branch
parseEntries(doc) ==
  IF doc.headings = <<>> /\ doc.notFound
  THEN [raised |-> FALSE, entries |-> <<>>, hasMirip |-> TRUE, mirip |-> parseMirip(doc)]
  ELSE IF doc.detailMarker
  THEN LET d == parseDetailsPage(doc.page)
       IN  [raised |-> d.raised,
            entries |-> IF d.raised \/ d.isNull THEN <<>> ELSE <<d.obj>>,
            hasMirip |-> FALSE, mirip |-> <<>>]
  ELSE [raised |-> FALSE, entries |-> DirectEntries(doc, 1),
        hasMirip |-> FALSE, mirip |-> <<>>]

\* ------------------------------------------------------------ input pages
HeadingCinta ==
  [italic |-> NULL, text |-> "cinta", sup |-> NULL, editEid |-> "1",
   viewId |-> NULL, parentId |-> NULL, rootword |-> NULL]

HeadingKata ==
  [italic |-> NULL, text |-> "kata", sup |-> "1", editEid |-> NULL,
   viewId |-> "2", parentId |-> NULL, rootword |-> "kasih"]

HeadingNoId ==
  [italic |-> "cita", text |-> "", sup |-> NULL, editEid |-> NULL,
   viewId |-> NULL, parentId |-> NULL, rootword |-> NULL]

HeadingKinds == {HeadingCinta, HeadingKata, HeadingNoId}

RECURSIVE SeqsUpTo(_, _)
SeqsUpTo(S, n) ==
  IF n = 0 THEN {<<>>}
  ELSE LET shorter == SeqsUpTo(S, n - 1)
       IN  shorter \cup {Append(q, x) : q \in {r \in shorter : Len(r) = n - 1}, x \in S}

SearchDocs ==
  [headings : SeqsUpTo(HeadingKinds, MaxHeadings),
   suggestions : {<<>>, <<"cita", "cipta">>},
   kataDasar : {<<>>},
   logout : BOOLEAN,
   challenge : BOOLEAN]

\* a served details document: its rows and sections, the title block, the
\* compound-word block, and whether it shows the logout control or is the
\* Cloudflare interstitial
Page(body) ==
  [body |-> body, titleRoot |-> NULL, titleSup |-> "", compound |-> <<>>,
   logout |-> FALSE, challenge |-> FALSE]

\* no document was fetched
NoPage == Page(<<>>)

\* every labelled row present
PageFull(id) ==
  [Page(<<Row("Eid", id), Row("Entri", "cinta"), Row("Id Homonim", "2"),
          Row("Jenis Entri", "dasar"), Row("Induk Kata", "kasih (Eid: 7)"),
          Row("Makna", "suka sekali"), Row("Kelas Kata", "a (Adjektiva)"),
          ContohH4(1, 1), Row("Contoh", "[cinta] kasih")>>)
   EXCEPT !.logout = TRUE]

\* no "Id Homonim" and no "Induk Kata" row, and no name
PageSparse(id) ==
  Page(<<Row("Eid", id), Row("Id Homonim", "(Tidak tersedia)"),
         Row("Makna", "suka sekali")>>)

\* only placeholders: nothing is populated
PageBlank(id) ==
  Page(<<Row("Entri", "(Tidak tersedia)"), Row("Makna", "")>>)

\* a "Contoh #0-1" section under an existing meaning
PageSectionZero(id) ==
  Page(<<Row("Eid", id), Row("Entri", "cinta"), Row("Makna", "suka sekali"),
         ContohH4(0, 1), Row("Contoh", "cinta kasih")>>)

\* rows that populate nothing: an unknown label, and a class and an example
\* with no meaning to attach to
PageUnlabelled(id) ==
  Page(<<Row("Catatan", "cinta"), Row("Kelas Kata", "a (Adjektiva)"),
         Row("Contoh", "cinta kasih")>>)

\* the Cloudflare interstitial served in place of the details document
PageChallenge(id) == [Page(<<>>) EXCEPT !.challenge = TRUE]

DetailPages(id) ==
  {PageFull(id), PageSparse(id), PageBlank(id), PageSectionZero(id),
   PageUnlabelled(id), PageChallenge(id)}

\* ------------------------------------------------- input search-result pages
\* list items: [text, spans, red, plain, grey] = the item's whole text, its
\* titled red spans, the tokens of its red text, its text without the grey,
\* red and button elements, and the texts of its grey elements
ItemSuka ==
  [text |-> "a suka sekali", spans |-> <<>>, red |-> <<"a">>,
   plain |-> "suka sekali", grey |-> <<>>]

ItemSayang ==
  [text |-> "n : rasa  sayang; cinta kasih", red |-> <<"n">>,
   spans |-> <<[code |-> "n", title |-> "Nomina: kata benda"]>>,
   plain |-> ": rasa  sayang;", grey |-> <<"cinta kasih", "">>]

ItemPropose ==
  [text |-> "Usulkan makna baru", spans |-> <<>>, red |-> <<>>,
   plain |-> "Usulkan makna baru", grey |-> <<>>]

ItemBare ==
  [text |-> "", spans |-> <<>>, red |-> <<>>, plain |-> "", grey |-> <<>>]

ItemKinds == {ItemSuka, ItemSayang, ItemPropose, ItemBare}

\* text that follows a heading without a list
Contents == {"", "n", "a sangat suka", "lihat kasih", "Usulkan makna baru"}

\* related-word sections: [title, hasUl, links]
SecTurunan ==
  [title |-> "Kata Turunan", hasUl |-> TRUE, links |-> <<"bercinta", "pencinta", "bercinta">>]

SecTurunanLagi ==
  [title |-> "Kata Turunan", hasUl |-> TRUE, links |-> <<"pencinta", "tercinta">>]

SecGabungan ==
  [title |-> "Gabungan Kata", hasUl |-> TRUE, links |-> <<"cinta monyet", "">>]

SecPeribahasa == [title |-> "Peribahasa", hasUl |-> FALSE, links |-> <<>>]

SecCatatan == [title |-> "Catatan", hasUl |-> TRUE, links |-> <<"cinta">>]

SectionKinds == {SecTurunan, SecTurunanLagi, SecGabungan, SecPeribahasa, SecCatatan}

\* an entry heading with what follows it up to the next heading
Rich(h, hasList, items, content, sections, small) ==
  [italic |-> h.italic, text |-> h.text, sup |-> h.sup, editEid |-> h.editEid,
   viewId |-> h.viewId, parentId |-> h.parentId, rootword |-> h.rootword,
   hasList |-> hasList, items |-> items, content |-> content,
   sections |-> sections, small |-> small, olAfter |-> <<>>]

\* the word followed by the character U+00B9 in the heading's own text
HeadingKataUnicode ==
  [italic |-> NULL, text |-> "kata^1", sup |-> NULL, editEid |-> "3",
   viewId |-> NULL, parentId |-> NULL, rootword |-> NULL]

\* a compound entry
HeadingGabungan ==
  [italic |-> NULL, text |-> "cinta kasih", sup |-> NULL, editEid |-> "4",
   viewId |-> NULL, parentId |-> NULL, rootword |-> NULL]

\* a served search document
Doc(headings, notFound, detailMarker, page, suggestions, logout, challenge) ==
  [headings |-> headings, suggestions |-> suggestions, kataDasar |-> <<>>,
   logout |-> logout, challenge |-> challenge, notFound |-> notFound,
   detailMarker |-> detailMarker, page |-> page,
   etymology |-> [found |-> FALSE, text |-> "", languages |-> <<>>]]

\* one heading with a list of meanings
ListDocs ==
  {Doc(<<Rich(HeadingKata, TRUE, items, "", <<>>, NULL)>>,
       FALSE, FALSE, NoPage, <<>>, FALSE, challenge) :
     items \in SeqsUpTo(ItemKinds, MaxItems), challenge \in BOOLEAN}

\* one heading without a list
TextDocs ==
  {Doc(<<Rich(h, FALSE, <<>>, content, <<>>, "peribahasa")>>,
       FALSE, FALSE, NoPage, <<>>, TRUE, FALSE) :
     h \in {HeadingCinta, HeadingNoId, HeadingKataUnicode}, content \in Contents}

\* one heading followed by related-word sections, and two headings of which
\* the second is followed by one
RelatedDocs ==
  {[Doc(<<Rich(HeadingCinta, TRUE, <<ItemSuka>>, "", sections, NULL)>>,
        FALSE, FALSE, NoPage, <<>>, FALSE, FALSE)
    EXCEPT !.etymology = [found |-> TRUE, text |-> "[Sanskerta cinta]",
                          languages |-> <<"Sanskerta">>]] :
     sections \in SeqsUpTo(SectionKinds, MaxSections)}
  \cup {Doc(<<Rich(HeadingCinta, TRUE, <<ItemSuka>>, "", <<>>, NULL),
              Rich(HeadingKata, TRUE, <<ItemSayang>>, "", <<SecTurunan>>, "idiom")>>,
            FALSE, FALSE, NoPage, <<>>, FALSE, FALSE)}

\* documents that differ in the markers parseEntries classifies by
MarkerDocs ==
  {Doc(headings, notFound, detailMarker, page, suggestions, logout, FALSE) :
     headings \in {<<>>, <<Rich(HeadingCinta, TRUE, <<ItemSuka>>, "", <<>>, NULL)>>},
     notFound \in BOOLEAN, detailMarker \in BOOLEAN,
     page \in {PageFull("1"), PageBlank("1")},
     suggestions \in {<<>>, <<"cita", "cipta">>}, logout \in BOOLEAN}

\* one heading without a list before the next <h4>, and an <ol> after it
CompoundDocs ==
  {Doc(<<[Rich(h, FALSE, <<>>, content, <<>>, NULL) EXCEPT !.olAfter = items]>>,
       FALSE, FALSE, NoPage, <<>>, TRUE, FALSE) :
     h \in {HeadingGabungan, HeadingCinta}, content \in {"", "lihat kasih"},
     items \in {<<>>, <<ItemSuka>>, <<ItemPropose, ItemSayang>>}}

LookupDocs == ListDocs \cup TextDocs \cup RelatedDocs \cup MarkerDocs \cup CompoundDocs

\* --------------------------------------------------------- BrowserManager
NoBrowser == [exists |-> FALSE, launched |-> FALSE, page |-> FALSE]

\* new BrowserManager(...)
NewManager == [exists |-> TRUE, launched |-> FALSE, page |-> FALSE]

InitOutcomes == {"ok", "launch_failed", "context_failed"}

\* initBrowser: errors are caught; a failed launch leaves no browser, a
\* failure after the launch leaves a browser without a page
initBrowser(b, outcome) ==
  CASE outcome = "ok" -> [b EXCEPT !.launched = TRUE, !.page = TRUE]
    [] outcome = "context_failed" -> [b EXCEPT !.launched = TRUE]
    [] OTHER -> b

\* navigateTo: null without a page or on a navigation error, else the content
navigateTo(b, ok) == b.page /\ ok

\* checkCloudflare: false without a page or when evaluate throws
checkCloudflare(b, doc, evalOk) == b.page /\ evalOk /\ doc.challenge

\* close: releases the browser if one was launched
closeLeaks(b) == b

close(b) == IF b.launched THEN [b EXCEPT !.launched = FALSE, !.page = FALSE] ELSE b

\* number of browsers a close releases
Released(b) == IF b.launched /\ ~close(b).launched THEN 1 ELSE 0

\* number of browsers an initBrowser launches
Launched(b) == IF b.launched THEN 1 ELSE 0

\* ------------------------------------------------- KBBIScraper.scrapeWord
VARIABLES
  headless,        \* this.options.headless
  searchDoc,       \* the document the site serves for the search URL
  pc,              \* position in scrapeWord
  browser,         \* this.browser
  openCount,       \* browsers launched and not yet closed
  searchHtml,      \* "none" before the search fetch, then "html" or "null"
  authenticated,   \* this.authenticated
  entries,         \* the stubs
  mirip,           \* suggestions of the search document
  idx,             \* loop position in entries (1-based)
  detailedEntries, \* the growing result list
  stubOf,          \* history: the stub behind each element of detailedEntries
  detailOf,        \* history: the document served for it and what the details parser returned
  fetchLog,        \* history: the detail fetches, [id, html]
  waited,          \* history: milliseconds spent in inter-request delays
  returned,        \* scrapeWord returned a result
  result,          \* the returned ScrapeResult
  error,           \* the error scrapeWord threw, "" if none
  resolvedDoc,     \* the document the search URL shows once a challenge is passed
  challengeSolved, \* history: the challenge was passed by hand in the browser
  jsonFlag,        \* flags.json of the command line
  stdout,          \* what the command line printed
  cookieFile,      \* the file at options.cookiesPath
  lastCall         \* history: the last call on the cookie store

vars == <<headless, searchDoc, pc, browser, openCount, searchHtml, authenticated,
          entries, mirip, idx, detailedEntries, stubOf, detailOf, fetchLog,
          waited, returned, result, error, resolvedDoc, challengeSolved,
          jsonFlag, stdout, cookieFile, lastCall>>

inputs == <<headless, searchDoc, resolvedDoc, jsonFlag>>
others == <<stdout, cookieFile, lastCall>>
phase1 == <<searchHtml, authenticated, entries, mirip>>
phase2 == <<idx, detailedEntries, stubOf, detailOf, fetchLog, waited>>
outcome == <<returned, result, error>>

NoResult == [authenticated |-> FALSE, entries |-> <<>>, mirip |-> <<>>]

\* nothing was printed
NoOutput == [kind |-> "none", keys |-> {}]

\* no call was made on the cookie store
NoCall ==
  [op |-> "none", arg |-> "", ret |-> FALSE, threw |-> FALSE, failed |-> FALSE,
   before |-> <<>>, prevOp |-> "none", prevArg |-> "", prevRet |-> FALSE,
   prevBefore |-> <<>>]

\* the state before a call: no session, nothing fetched or printed, no
\* cookie file
Idle ==
  /\ browser = NoBrowser
  /\ openCount = 0
  /\ searchHtml = "none"
  /\ authenticated = FALSE
  /\ entries = <<>>
  /\ mirip = <<>>
  /\ idx = 1
  /\ detailedEntries = <<>>
  /\ stubOf = <<>>
  /\ detailOf = <<>>
  /\ fetchLog = <<>>
  /\ waited = 0
  /\ returned = FALSE
  /\ result = NoResult
  /\ error = ""
  /\ challengeSolved = FALSE
  /\ stdout = NoOutput
  /\ cookieFile = [exists |-> FALSE, cookies |-> <<>>]
  /\ lastCall = NoCall

\* the page behind a challenge: the entry "cinta", seen by a logged-in user
ResolvedSearchDocs ==
  {d \in SearchDocs : /\ ~d.challenge
                      /\ d.logout
                      /\ d.headings = <<HeadingCinta>>}

Init ==
  /\ headless \in BOOLEAN
  /\ searchDoc \in SearchDocs
  /\ resolvedDoc \in (IF searchDoc.challenge THEN ResolvedSearchDocs ELSE {searchDoc})
  /\ jsonFlag = TRUE
  /\ pc = "idle"
  /\ Idle

\* variant without the finally clause
ThrowNoFinally(kind) ==
  /\ pc' = "failed"
  /\ error' = kind
  /\ UNCHANGED <<browser, openCount, returned, result>>

\* throw inside the try block: the finally clause closes this.browser
Throw(kind) ==
  /\ pc' = "failed"
  /\ error' = kind
  /\ browser' = IF browser.exists THEN close(browser) ELSE browser
  /\ openCount' = openCount - (IF browser.exists THEN Released(browser) ELSE 0)
  /\ UNCHANGED <<returned, result>>

\* this.browser = new BrowserManager(...); await this.browser.initBrowser()
OpenSession(o) ==
  /\ browser' = initBrowser(NewManager, o)
  /\ openCount' = openCount + Launched(initBrowser(NewManager, o))

\* await this.browser.close(); this.browser = null
CloseSession ==
  /\ browser' = NoBrowser
  /\ openCount' = openCount - Released(browser)

\* the merge of a stub with the parsed details
Merge(entry, details) == Spread(Spread(EmptyObj, entry), details)

\* detailedEntries.push(entry) on a failed fetch
pushStubDropped(list, entry) == list

pushStub(list, entry) == Append(list, entry)

\* the loop's "continue" on an entry without an id: first position >= i that
\* is processed
RECURSIVE SkipInvalid(_, _)
SkipInvalid(es, i) ==
  IF i > Len(es) THEN i
  ELSE IF es[i].id = NULL THEN SkipInvalid(es, i + 1)
  ELSE i

\* phase 1: create the search session
Begin ==
  /\ pc = "idle"
  /\ \E o \in InitOutcomes : OpenSession(o)
  /\ pc' = "search_nav"
  /\ UNCHANGED <<inputs, others, challengeSolved, phase1, phase2, outcome>>

\* variant without the "if (!html) throw" check
SearchNavigateNoCheck ==
  /\ pc = "search_nav"
  /\ \E ok \in BOOLEAN :
       /\ searchHtml' = IF navigateTo(browser, ok) THEN "html" ELSE "null"
       /\ pc' = "search_cf"
       /\ UNCHANGED <<browser, openCount, outcome>>
  /\ UNCHANGED <<inputs, others, challengeSolved, authenticated, entries, mirip, phase2>>

\* const html = await this.browser.navigateTo(url); if (!html) throw
SearchNavigate ==
  /\ pc = "search_nav"
  /\ \E ok \in BOOLEAN :
       IF navigateTo(browser, ok)
       THEN /\ searchHtml' = "html"
            /\ pc' = "search_cf"
            /\ UNCHANGED <<browser, openCount, outcome>>
       ELSE /\ searchHtml' = "null"
            /\ Throw("Failed to fetch page content")
  /\ UNCHANGED <<inputs, others, challengeSolved, authenticated, entries, mirip, phase2>>

\* checkCloudflare and the headless / visible branch
SearchCloudflare ==
  /\ pc = "search_cf"
  /\ \E evalOk \in BOOLEAN, solved \in BOOLEAN :
       IF checkCloudflare(browser, searchDoc, evalOk)
       THEN IF ~headless
            THEN IF solved
                 THEN /\ pc' = "search_parse"
                      /\ challengeSolved' = TRUE
                      /\ UNCHANGED <<browser, openCount, outcome>>
                 ELSE Throw("waitForNavigation timeout") /\ UNCHANGED challengeSolved
            ELSE Throw("Cloudflare challenge detected in headless mode") /\ UNCHANGED challengeSolved
       ELSE /\ pc' = "search_parse"
            /\ UNCHANGED <<challengeSolved, browser, openCount, outcome>>
  /\ UNCHANGED <<inputs, others, phase1, phase2>>

\* parse the search document, close the first session, early return when
\* there are no entries
SearchParse ==
  /\ pc = "search_parse"
  /\ authenticated' = checkAuthentication(searchDoc)
  /\ entries' = CollectEntries(searchDoc, searchDoc.headings)
  /\ mirip' = parseMirip(searchDoc)
  /\ CloseSession
  /\ IF entries' = <<>>
     THEN /\ pc' = "done"
          /\ returned' = TRUE
          /\ result' = [authenticated |-> authenticated', entries |-> <<>>, mirip |-> mirip']
     ELSE /\ pc' = "loop"
          /\ UNCHANGED <<returned, result>>
  /\ UNCHANGED <<inputs, others, challengeSolved, searchHtml, phase2, error>>

\* loop head, an entry remains: create its session
DetailOpen ==
  /\ pc = "loop"
  /\ SkipInvalid(entries, idx) <= Len(entries)
  /\ idx' = SkipInvalid(entries, idx)
  /\ \E o \in InitOutcomes : OpenSession(o)
  /\ pc' = "detail_nav"
  /\ UNCHANGED <<inputs, others, challengeSolved, phase1, detailedEntries, stubOf, detailOf, fetchLog, waited, outcome>>

\* variant that recomputes this.authenticated from each details document
DetailNavigateReauthenticates ==
  /\ pc = "detail_nav"
  /\ \E ok \in BOOLEAN, page \in DetailPages(entries[idx].id) :
       LET entry == entries[idx]
           got == navigateTo(browser, ok)
           details == parseDetailsPage(page)
       IN  /\ fetchLog' = Append(fetchLog, [id |-> entry.id, html |-> got])
           /\ authenticated' = IF got THEN checkAuthentication(page) ELSE authenticated
           /\ IF got
              THEN IF details.raised
                   THEN /\ Throw("parseDetailsPage raised")
                        /\ UNCHANGED <<detailedEntries, stubOf, detailOf>>
                   ELSE /\ detailedEntries' = Append(detailedEntries, Merge(entry, details.obj))
                        /\ stubOf' = Append(stubOf, entry)
                        /\ detailOf' = Append(detailOf,
                                              [fetched |-> TRUE, isNull |-> details.isNull,
                                               obj |-> details.obj, page |-> page])
                        /\ pc' = "detail_close"
                        /\ UNCHANGED <<browser, openCount, outcome>>
              ELSE /\ detailedEntries' = pushStub(detailedEntries, entry)
                   /\ stubOf' = Append(stubOf, entry)
                   /\ detailOf' = Append(detailOf,
                                         [fetched |-> FALSE, isNull |-> TRUE, obj |-> EmptyObj,
                                          page |-> NoPage])
                   /\ pc' = "detail_close"
                   /\ UNCHANGED <<browser, openCount, outcome>>
  /\ UNCHANGED <<inputs, others, challengeSolved, searchHtml, entries, mirip, idx, waited>>

\* navigateTo(detailsUrl), parse and merge, or keep the stub
DetailNavigate ==
  /\ pc = "detail_nav"
  /\ \E ok \in BOOLEAN, page \in DetailPages(entries[idx].id) :
       LET entry == entries[idx]
           got == navigateTo(browser, ok)
           details == parseDetailsPage(page)
       IN  /\ fetchLog' = Append(fetchLog, [id |-> entry.id, html |-> got])
           /\ IF got
              THEN IF details.raised
                   THEN /\ Throw("parseDetailsPage raised")
                        /\ UNCHANGED <<detailedEntries, stubOf, detailOf>>
                   ELSE /\ detailedEntries' = Append(detailedEntries, Merge(entry, details.obj))
                        /\ stubOf' = Append(stubOf, entry)
                        /\ detailOf' = Append(detailOf,
                                              [fetched |-> TRUE, isNull |-> details.isNull,
                                               obj |-> details.obj, page |-> page])
                        /\ pc' = "detail_close"
                        /\ UNCHANGED <<browser, openCount, outcome>>
              ELSE /\ detailedEntries' = pushStub(detailedEntries, entry)
                   /\ stubOf' = Append(stubOf, entry)
                   /\ detailOf' = Append(detailOf,
                                         [fetched |-> FALSE, isNull |-> TRUE, obj |-> EmptyObj,
                                          page |-> NoPage])
                   /\ pc' = "detail_close"
                   /\ UNCHANGED <<browser, openCount, outcome>>
  /\ UNCHANGED <<inputs, others, challengeSolved, phase1, idx, waited>>

\* await this.browser.close(); this.browser = null
DetailClose ==
  /\ pc = "detail_close"
  /\ CloseSession
  /\ pc' = "detail_delay"
  /\ UNCHANGED <<inputs, others, challengeSolved, phase1, phase2, outcome>>

\* variant that waits only after a successful fetch
DetailDelayOnlyAfterSuccess ==
  /\ pc = "detail_delay"
  /\ waited' = IF fetchLog[Len(fetchLog)].html THEN waited + DelayMs ELSE waited
  /\ idx' = idx + 1
  /\ pc' = "loop"
  /\ UNCHANGED <<inputs, others, challengeSolved, phase1, browser, openCount, detailedEntries, stubOf,
                 detailOf, fetchLog, outcome>>

\* variant that stays on the same entry after a failed fetch
DetailDelayRetries ==
  /\ pc = "detail_delay"
  /\ waited' = waited + DelayMs
  /\ idx' = IF fetchLog[Len(fetchLog)].html THEN idx + 1 ELSE idx
  /\ pc' = "loop"
  /\ UNCHANGED <<inputs, others, challengeSolved, phase1, browser, openCount, detailedEntries, stubOf,
                 detailOf, fetchLog, outcome>>

\* await new Promise(resolve => setTimeout(resolve, 500))
DetailDelay ==
  /\ pc = "detail_delay"
  /\ waited' = waited + DelayMs
  /\ idx' = idx + 1
  /\ pc' = "loop"
  /\ UNCHANGED <<inputs, others, challengeSolved, phase1, browser, openCount, detailedEntries, stubOf,
                 detailOf, fetchLog, outcome>>

\* variant that returns the list in reverse
ReturnReversed ==
  /\ pc = "loop"
  /\ SkipInvalid(entries, idx) > Len(entries)
  /\ pc' = "done"
  /\ returned' = TRUE
  /\ result' = [authenticated |-> authenticated,
                entries |-> [i \in 1..Len(detailedEntries) |->
                               detailedEntries[Len(detailedEntries) + 1 - i]],
                mirip |-> mirip]
  /\ UNCHANGED <<inputs, others, challengeSolved, phase1, phase2, browser, openCount, error>>

\* loop exhausted: return the result
Return ==
  /\ pc = "loop"
  /\ SkipInvalid(entries, idx) > Len(entries)
  /\ pc' = "done"
  /\ returned' = TRUE
  /\ result' = [authenticated |-> authenticated, entries |-> detailedEntries, mirip |-> mirip]
  /\ UNCHANGED <<inputs, others, challengeSolved, phase1, phase2, browser, openCount, error>>

Next ==
  \/ Begin
  \/ SearchNavigate
  \/ SearchCloudflare
  \/ SearchParse
  \/ DetailOpen
  \/ DetailNavigate
  \/ DetailClose
  \/ DetailDelay
  \/ Return

Spec == Init /\ [][Next]_vars

\* each await of the single thread of control eventually completes
FairSpec == Spec /\ WF_vars(Next)

\* -------------------------------------------------------------- KBBI.lookup
\* throw inside the try block of lookup: the finally clause closes
\* this.browser
LookupThrow(kind) ==
  /\ pc' = "lookup_failed"
  /\ error' = kind
  /\ browser' = IF browser.exists THEN close(browser) ELSE browser
  /\ openCount' = openCount - (IF browser.exists THEN Released(browser) ELSE 0)
  /\ UNCHANGED <<returned, result>>

\* this.browser = new BrowserManager(...); await this.browser.initBrowser()
LookupBegin ==
  /\ pc = "lookup_idle"
  /\ \E o \in InitOutcomes : OpenSession(o)
  /\ pc' = "lookup_nav"
  /\ UNCHANGED <<inputs, others, challengeSolved, phase1, phase2, outcome>>

\* const html = await this.browser.navigateTo(url); if (!html) throw
LookupNavigate ==
  /\ pc = "lookup_nav"
  /\ \E ok \in BOOLEAN :
       IF navigateTo(browser, ok)
       THEN /\ searchHtml' = "html"
            /\ pc' = "lookup_cf"
            /\ UNCHANGED <<browser, openCount, outcome>>
       ELSE /\ searchHtml' = "null"
            /\ LookupThrow("Failed to fetch page content")
  /\ UNCHANGED <<inputs, others, challengeSolved, authenticated, entries, mirip, phase2>>

\* checkCloudflare and the headless / visible branch
LookupCloudflare ==
  /\ pc = "lookup_cf"
  /\ \E evalOk \in BOOLEAN, solved \in BOOLEAN :
       IF checkCloudflare(browser, searchDoc, evalOk)
       THEN IF ~headless
            THEN IF solved
                 THEN /\ pc' = "lookup_parse"
                      /\ challengeSolved' = TRUE
                      /\ UNCHANGED <<browser, openCount, outcome>>
                 ELSE LookupThrow("waitForNavigation timeout") /\ UNCHANGED challengeSolved
            ELSE LookupThrow("CloudflareBlockError") /\ UNCHANGED challengeSolved
       ELSE /\ pc' = "lookup_parse"
            /\ UNCHANGED <<challengeSolved, browser, openCount, outcome>>
  /\ UNCHANGED <<inputs, others, phase1, phase2>>

\* checkAuthentication, parseEntries, return; the finally clause closes
\* this.browser
LookupParse ==
  /\ pc = "lookup_parse"
  /\ authenticated' = checkAuthentication(searchDoc)
  /\ LET parsed == parseEntries(searchDoc)
     IN  IF parsed.raised
         THEN LookupThrow("parseDetailsPage raised")
         ELSE /\ pc' = "lookup_done"
              /\ returned' = TRUE
              /\ result' = [authenticated |-> authenticated', entries |-> parsed.entries,
                            hasMirip |-> parsed.hasMirip, mirip |-> parsed.mirip]
              /\ browser' = close(browser)
              /\ openCount' = openCount - Released(browser)
              /\ error' = error
  /\ UNCHANGED <<inputs, others, challengeSolved, searchHtml, entries, mirip, phase2>>

LookupNext ==
  \/ LookupBegin
  \/ LookupNavigate
  \/ LookupCloudflare
  \/ LookupParse

\* the page behind a challenge, for the documents of lookup
ResolvedLookupDocs ==
  {d \in MarkerDocs : /\ ~d.notFound
                      /\ ~d.detailMarker
                      /\ d.logout
                      /\ d.headings # <<>>
                      /\ d.page = PageBlank("1")}

\* a call of KBBI.lookup or of KBBI.scrape (which runs scrapeWord) on a
\* search-results document
KbbiInit ==
  /\ headless \in BOOLEAN
  /\ searchDoc \in LookupDocs
  /\ resolvedDoc \in (IF searchDoc.challenge THEN ResolvedLookupDocs ELSE {searchDoc})
  /\ jsonFlag = TRUE
  /\ pc \in {"idle", "lookup_idle"}
  /\ Idle

KbbiNext ==
  \/ Next
  \/ LookupNext

KbbiSpec == KbbiInit /\ [][KbbiNext]_vars

\* ------------------------------------------------- lookup of a details page
\* label/value rows of a details document
RowKinds ==
  {Row("Makna", "suka sekali"), Row("Makna", "kasih sayang"),
   Row("Makna", "(Tidak tersedia)"), Row("Kelas Kata", "a (Adjektiva)"),
   Row("Kelas Kata", "n, v"), Row("Contoh", "[cinta] kasih")}

\* rows and "Contoh #M-N" section headings
SectionElemKinds ==
  {Row("Makna", "suka sekali"), Row("Contoh", "[cinta] kasih"),
   Row("Contoh", "cinta monyet"), ContohH4(0, 1), ContohH4(1, 1), ContohH4(2, 1)}

DetailBodies == SeqsUpTo(RowKinds, MaxElems) \cup SeqsUpTo(SectionElemKinds, MaxElems)

\* a details document served for the looked-up word
DetailDocs ==
  {Doc(<<>>, FALSE, TRUE, Page(body), <<>>, FALSE, FALSE) : body \in DetailBodies}

\* a call of KBBI.lookup that is served a details document
DetailInit ==
  /\ headless = TRUE
  /\ searchDoc \in DetailDocs
  /\ resolvedDoc = searchDoc
  /\ jsonFlag = TRUE
  /\ pc = "lookup_idle"
  /\ Idle

DetailSpec == DetailInit /\ [][LookupNext]_vars

\* ------------------------------------------------------------- cookie store
\* a full cookie string, and bare cookie values: one short, three that share
\* their first ten characters
FullCookie == ".AspNet.ApplicationCookie=abc; path=/"

CookieValues == {"abc", "0123456789AAAA", "0123456789BBBB", "0123456789CCCC"}

\* arguments of addCookie and removeCookie
CookieInputs == CookieValues \cup {FullCookie, ""}

\* cookieValue.match(/(?:^|\s)\.AspNet\.ApplicationCookie=([^;]+)/)[1] when
\* the argument includes '=' and matches, else the argument
ExtractValue(cookieValue) == IF cookieValue = FullCookie THEN "abc" ELSE cookieValue

\* cookieValue.length > 10
LongerThan10(cookieValue) == cookieValue \notin {"abc", ""}

\* cookieValue.substring(0, 10)
Prefix10(cookieValue) ==
  CASE cookieValue = FullCookie -> ".AspNet.Ap"
    [] cookieValue \in {"0123456789AAAA", "0123456789BBBB", "0123456789CCCC"} -> "0123456789"
    [] OTHER -> cookieValue

\* c.startsWith(prefix)
StartsWith(c, prefix) ==
  \/ c = prefix
  \/ prefix = ""
  \/ prefix = "0123456789" /\ c \in {"0123456789AAAA", "0123456789BBBB", "0123456789CCCC"}
  \/ prefix = ".AspNet.Ap" /\ c = FullCookie

\* the array read from the cookies file; [] without a file
Stored(file) == IF file.exists THEN file.cookies ELSE <<>>

\* variant that pushes without the includes test
addCookieAlwaysPush(file, cookieValue, writeOk) ==
  IF cookieValue = "" THEN [file |-> file, ret |-> FALSE, threw |-> TRUE]
  ELSE IF writeOk
  THEN [file |-> [exists |-> TRUE,
                  cookies |-> Append(Stored(file), ExtractValue(cookieValue))],
        ret |-> TRUE, threw |-> FALSE]
  ELSE [file |-> file, ret |-> FALSE, threw |-> FALSE]

\* addCookie: [file, ret, threw]; writeOk is whether writeFileSync succeeded
addCookie(file, cookieValue, writeOk) ==
  IF cookieValue = "" THEN [file |-> file, ret |-> FALSE, threw |-> TRUE]
  ELSE LET value == ExtractValue(cookieValue)
           cookies == Stored(file)
           pushed == IF Includes(cookies, value) THEN cookies ELSE Append(cookies, value)
       IN  IF writeOk
           THEN [file |-> [exists |-> TRUE, cookies |-> pushed], ret |-> TRUE, threw |-> FALSE]
           ELSE [file |-> file, ret |-> FALSE, threw |-> FALSE]

\* variant without the prefix pass
removeCookieExactOnly(file, cookieValue, writeOk) ==
  IF cookieValue = "" THEN [file |-> file, ret |-> FALSE, threw |-> TRUE]
  ELSE IF ~file.exists THEN [file |-> file, ret |-> FALSE, threw |-> FALSE]
  ELSE LET exact == SelectSeq(file.cookies, LAMBDA c : c # cookieValue)
       IN  IF writeOk
           THEN [file |-> [exists |-> TRUE, cookies |-> exact],
                 ret |-> Len(file.cookies) > Len(exact), threw |-> FALSE]
           ELSE [file |-> file, ret |-> FALSE, threw |-> FALSE]

\* removeCookie: [file, ret, threw]
removeCookie(file, cookieValue, writeOk) ==
  IF cookieValue = "" THEN [file |-> file, ret |-> FALSE, threw |-> TRUE]
  ELSE IF ~file.exists THEN [file |-> file, ret |-> FALSE, threw |-> FALSE]
  ELSE LET initialLength == Len(file.cookies)
           exact == SelectSeq(file.cookies, LAMBDA c : c # cookieValue)
           cookies ==
             IF initialLength = Len(exact) /\ LongerThan10(cookieValue)
             THEN SelectSeq(exact, LAMBDA c : ~StartsWith(c, Prefix10(cookieValue)))
             ELSE exact
       IN  IF writeOk
           THEN [file |-> [exists |-> TRUE, cookies |-> cookies],
                 ret |-> initialLength > Len(cookies), threw |-> FALSE]
           ELSE [file |-> file, ret |-> FALSE, threw |-> FALSE]

\* the record kept of a call and of the one before it
Called(op, arg, r, writeOk) ==
  [op |-> op, arg |-> arg, ret |-> r.ret, threw |-> r.threw,
   failed |-> (~r.threw /\ ~writeOk), before |-> Stored(cookieFile),
   prevOp |-> lastCall.op, prevArg |-> lastCall.arg,
   prevRet |-> lastCall.ret, prevBefore |-> lastCall.before]

\* auth.addCookie(cookieValue)
AddCookieCall ==
  /\ pc = "idle"
  /\ \E cookieValue \in CookieInputs, writeOk \in BOOLEAN :
       LET r == addCookie(cookieFile, cookieValue, writeOk)
       IN  /\ cookieFile' = r.file
           /\ lastCall' = Called("add", cookieValue, r, writeOk)
  /\ UNCHANGED <<inputs, stdout, challengeSolved, phase1, phase2, browser,
                 openCount, outcome, pc>>

\* auth.removeCookie(cookieValue)
RemoveCookieCall ==
  /\ pc = "idle"
  /\ \E cookieValue \in CookieInputs, writeOk \in BOOLEAN :
       LET r == removeCookie(cookieFile, cookieValue, writeOk)
       IN  /\ cookieFile' = r.file
           /\ lastCall' = Called("remove", cookieValue, r, writeOk)
  /\ UNCHANGED <<inputs, stdout, challengeSolved, phase1, phase2, browser,
                 openCount, outcome, pc>>

CookieNext ==
  \/ AddCookieCall
  \/ RemoveCookieCall

\* an Auth object whose cookies file does not exist yet
CookieInit ==
  /\ headless = TRUE
  /\ searchDoc = Doc(<<>>, TRUE, FALSE, NoPage, <<>>, FALSE, FALSE)
  /\ resolvedDoc = searchDoc
  /\ jsonFlag = TRUE
  /\ pc = "idle"
  /\ Idle

CookieSpec == CookieInit /\ [][CookieNext]_vars

\* ------------------------------------------------------------ command line
\* error.message.includes('not found') || error.message.includes('No entries')
IncludesNotFound(message) == message \in {"Entry not found", "No entries found"}

\* the top-level keys JSON.stringify writes for the object lookup returns;
\* a property whose value is undefined is left out
LookupJsonKeys(res) ==
  {"word", "authenticated", "entries"} \cup (IF res.hasMirip THEN {"mirip"} ELSE {})

\* the top-level keys of the object built from a scrape result
ScrapeJsonKeys(res) ==
  IF res.entries = <<>> THEN {"kata", "entri", "error", "mirip"}
  ELSE {"kata", "entri", "mirip"}

\* lookup branch: print the result of kbbi.lookup(word)
CliPrintLookup ==
  /\ pc = "lookup_done"
  /\ stdout' = IF jsonFlag THEN [kind |-> "json", keys |-> LookupJsonKeys(result)]
                ELSE [kind |-> "text", keys |-> {}]
  /\ pc' = "exit"
  /\ UNCHANGED <<inputs, cookieFile, lastCall, challengeSolved, phase1, phase2,
                 browser, openCount, outcome>>

\* lookup branch: kbbi.lookup(word) threw, handleError writes to stderr
CliLookupError ==
  /\ pc = "lookup_failed"
  /\ stdout' = [kind |-> "stderr", keys |-> {}]
  /\ pc' = "exit"
  /\ UNCHANGED <<inputs, cookieFile, lastCall, challengeSolved, phase1, phase2,
                 browser, openCount, outcome>>

\* scrape branch: print the result of kbbi.scrape(word)
CliPrintScrape ==
  /\ pc = "done"
  /\ stdout' = IF jsonFlag THEN [kind |-> "json", keys |-> ScrapeJsonKeys(result)]
                ELSE [kind |-> "text", keys |-> {}]
  /\ pc' = "exit"
  /\ UNCHANGED <<inputs, cookieFile, lastCall, challengeSolved, phase1, phase2,
                 browser, openCount, outcome>>

\* scrape branch: kbbi.scrape(word) threw
CliScrapeError ==
  /\ pc = "failed"
  /\ stdout' = IF jsonFlag
                THEN [kind |-> "json",
                      keys |-> IF IncludesNotFound(error)
                               THEN {"kata", "entri", "error", "mirip"}
                               ELSE {"kata", "error", "entri"}]
                ELSE IF IncludesNotFound(error) THEN [kind |-> "text", keys |-> {}]
                ELSE [kind |-> "stderr", keys |-> {}]
  /\ pc' = "exit"
  /\ UNCHANGED <<inputs, cookieFile, lastCall, challengeSolved, phase1, phase2,
                 browser, openCount, outcome>>

CliNext ==
  \/ CliPrintLookup
  \/ CliLookupError
  \/ CliPrintScrape
  \/ CliScrapeError

\* kbbi <word> [--scrape] [--json] [--visible]
CliInit ==
  /\ headless \in BOOLEAN
  /\ searchDoc \in LookupDocs
  /\ resolvedDoc \in (IF searchDoc.challenge THEN ResolvedLookupDocs ELSE {searchDoc})
  /\ jsonFlag \in BOOLEAN
  /\ pc \in {"idle", "lookup_idle"}
  /\ Idle

CliMainNext ==
  \/ KbbiNext
  \/ CliNext

CliSpec == CliInit /\ [][CliMainNext]_vars

\* ------------------------------------------------------------- properties
StubKeys == {"nama", "nomor", "id", "rootWord"}

\* headings of the search document for which extractId finds nothing
NoIdHeadings == {k \in 1..Len(searchDoc.headings) : extractId(searchDoc.headings[k]) = NULL}

\* the search document has been parsed into stubs
Resolved == pc \in {"loop", "detail_nav", "detail_close", "detail_delay"}
            \/ (pc \in {"done", "failed"} /\ fetchLog # <<>>)
            \/ returned

\* C1: a detail fetch that returns no HTML leaves its stub in the result list
\* exactly as it was, does not raise, and does not stop the loop: a returned
\* result has one entry per stub, and a failure of the call during phase 2
\* never follows a fetch that returned no HTML.
C1_FailedFetchKeepsStub ==
  /\ \A i \in 1..Len(detailedEntries) :
       ~fetchLog[i].html => detailedEntries[i] = entries[i]
  /\ (pc = "failed" /\ fetchLog # <<>>) => fetchLog[Len(fetchLog)].html
  /\ (returned /\ entries # <<>>) =>
       /\ Len(result.entries) = Len(entries)
       /\ \A i \in 1..Len(entries) :
            ~fetchLog[i].html => result.entries[i] = entries[i]

C1_Witness ==
  /\ returned
  /\ Len(entries) = 2
  /\ ~fetchLog[1].html
  /\ fetchLog[2].html
  /\ result.entries[1] = entries[1]
  /\ result.entries[2] # entries[2]

\* C2 (as claimed): every heading without an extractable id still has its stub,
\* with a null id, in the returned entries.
C2_Claim ==
  returned =>
    \A k \in NoIdHeadings :
      \E i \in 1..Len(result.entries) :
        /\ result.entries[i]["nama"] = extractText(searchDoc.headings[k])
        /\ result.entries[i]["id"] = NULL

\* C2 (amended): a heading without an extractable id yields no stub: every
\* stub has an id, there are exactly as many stubs as headings with an id, the
\* returned entries contain no entry with a null id, and no detail fetch is
\* issued for a null id.
C2_NoIdHeadingDropped ==
  /\ \A i \in 1..Len(entries) : entries[i].id # NULL
  /\ Resolved => Len(entries) = Len(searchDoc.headings) - Cardinality(NoIdHeadings)
  /\ returned =>
       /\ Len(result.entries) = Len(searchDoc.headings) - Cardinality(NoIdHeadings)
       /\ \A i \in 1..Len(result.entries) : result.entries[i]["id"] # NULL
  /\ \A i \in 1..Len(fetchLog) : fetchLog[i].id # NULL

C2_Witness ==
  /\ returned
  /\ NoIdHeadings # {}
  /\ Len(result.entries) = 1
  /\ Len(searchDoc.headings) = 2

\* C3 (as claimed): a returned result with entries has an empty mirip.
C3_Claim == returned => (result.entries # <<>> => result.mirip = <<>>)

\* C4: the search fetch yielding no HTML fails the whole call with the fetch
\* error, without a result and before any detail fetch; no other fetch outcome
\* produces that error, and a call that fails after fetching HTML fails on a
\* detected challenge or inside the details parser, never on a fetch outcome.
C4_SearchFetchFailureFatal ==
  /\ searchHtml = "null" =>
       /\ pc = "failed"
       /\ error = "Failed to fetch page content"
       /\ ~returned
       /\ fetchLog = <<>>
  /\ pc = "failed" =>
       \/ searchHtml = "null"
       \/ /\ fetchLog = <<>>
          /\ searchDoc.challenge
          /\ error \in {"Cloudflare challenge detected in headless mode",
                        "waitForNavigation timeout"}
       \/ /\ fetchLog # <<>>
          /\ fetchLog[Len(fetchLog)].html
          /\ error = "parseDetailsPage raised"
  /\ ~(pc = "failed" /\ returned)

C4_Witness ==
  /\ pc = "failed"
  /\ searchHtml = "null"
  /\ browser.page = FALSE
  /\ Len(searchDoc.headings) = 2

\* C5: at most one browser is open at any moment, and none is open when the
\* loop is about to create the next session.
C5_OneSessionAtATime ==
  /\ openCount <= 1
  /\ pc \in {"loop", "detail_delay", "done", "failed"} => openCount = 0

C5_Witness ==
  /\ pc = "detail_nav"
  /\ idx = 2
  /\ openCount = 1

\* C6: when a detail fetch starts, the fixed delay has elapsed exactly once for
\* each earlier detail fetch, failed or not.
C6_OneDelayBetweenFetches ==
  /\ pc = "detail_nav" => waited = DelayMs * Len(fetchLog)
  /\ pc \in {"detail_close", "detail_delay"} => waited = DelayMs * (Len(fetchLog) - 1)
  /\ pc = "loop" => waited = DelayMs * Len(fetchLog)

C6_Witness ==
  /\ pc = "detail_nav"
  /\ Len(fetchLog) = 1
  /\ ~fetchLog[1].html
  /\ waited = DelayMs

\* C7: the detail fetches are those of the stubs, in stub order and at most
\* one per stub; a returned result has fetched every stub once, and an entry
\* whose fetch failed has only the stub's fields.
C7_FetchedOnceInOrder ==
  /\ Len(fetchLog) <= Len(entries)
  /\ \A i \in 1..Len(fetchLog) : fetchLog[i].id = entries[i].id
  /\ (returned /\ entries # <<>>) =>
       /\ Len(fetchLog) = Len(entries)
       /\ \A i \in 1..Len(entries) :
            ~fetchLog[i].html =>
              /\ DOMAIN result.entries[i] = StubKeys
              /\ ~detailOf[i].fetched

C7_Witness ==
  /\ returned
  /\ Len(fetchLog) = 2
  /\ ~fetchLog[2].html
  /\ fetchLog[1].id # fetchLog[2].id

\* C8 (as claimed): once the stubs are resolved, scrapeWord eventually returns
\* a result, whatever the detail fetches yield.
C8_Claim == (pc = "loop") ~> returned

\* C9: a merged entry has the keys of the stub and of the details, with the
\* details' value for every key the details have and the stub's otherwise.
C9_MergeLaw ==
  \A i \in 1..Len(detailedEntries) :
    detailOf[i].fetched =>
      LET S == stubOf[i]
          D == detailOf[i].obj
          M == detailedEntries[i]
      IN  /\ DOMAIN M = (DOMAIN S) \cup (DOMAIN D)
          /\ \A k \in DOMAIN D : M[k] = D[k]
          /\ \A k \in (DOMAIN S) \ (DOMAIN D) : M[k] = S[k]

C9_Witness ==
  \E i \in 1..Len(detailedEntries) :
    /\ detailOf[i].fetched
    /\ Has(detailOf[i].obj, "nama")
    /\ detailOf[i].obj["nama"] # stubOf[i]["nama"]
    /\ detailedEntries[i]["nama"] = detailOf[i].obj["nama"]

\* a field of the stub that carries a value
Present(S, k) == k \in DOMAIN S /\ S[k] # NULL /\ S[k] # ""

\* C10 (as claimed): a field the stub has and the details do not provide is
\* absent or blank in the merged entry.
C10_Claim ==
  \A i \in 1..Len(detailedEntries) :
    detailOf[i].fetched =>
      \A k \in StubKeys :
        (Present(stubOf[i], k) /\ ~Has(detailOf[i].obj, k)) =>
          (~Has(detailedEntries[i], k) \/ ~Present(detailedEntries[i], k))

\* C10 (amended): a field the stub has and the details do not provide keeps
\* the stub's value in the merged entry.
C10_StubValueKept ==
  \A i \in 1..Len(detailedEntries) :
    detailOf[i].fetched =>
      \A k \in StubKeys :
        (Present(stubOf[i], k) /\ ~Has(detailOf[i].obj, k)) =>
          (Has(detailedEntries[i], k) /\ detailedEntries[i][k] = stubOf[i][k])

C10_Witness ==
  \E i \in 1..Len(detailedEntries) :
    /\ detailOf[i].fetched
    /\ ~detailOf[i].isNull
    /\ Present(stubOf[i], "rootWord")
    /\ ~Has(detailOf[i].obj, "rootWord")
    /\ detailedEntries[i]["rootWord"] = stubOf[i]["rootWord"]

\* C11 (as claimed): a result is returned only when no fetched document was a
\* challenge page, except for a search-stage challenge that went through the
\* manual-resolution step of visible mode.
C11_Claim ==
  returned =>
    /\ searchDoc.challenge => ~headless
    /\ \A i \in 1..Len(detailOf) : detailOf[i].fetched => ~detailOf[i].page.challenge

\* C12: once the search document is parsed, the authenticated flag equals the
\* presence of the logout control in the search document and stays so through
\* every detail fetch; the returned result carries that value.
C12_AuthenticatedFromSearchDoc ==
  /\ Resolved => authenticated = searchDoc.logout
  /\ returned => result.authenticated = searchDoc.logout

\* a result returned after a details document was fetched whose logout control
\* differs from the search document's
C12_Witness ==
  /\ returned
  /\ \E i \in 1..Len(detailOf) :
       detailOf[i].fetched /\ detailOf[i].page.logout # searchDoc.logout

\* C13: a search document without entry headings, once parsed, ends the call
\* with an empty entry list, the suggestions of the document in order, no
\* detail fetch and no error.
C13_NotFoundEndsEarly ==
  (searchDoc.headings = <<>>) =>
    /\ fetchLog = <<>>
    /\ pc \notin {"loop", "detail_nav", "detail_close", "detail_delay"}
    /\ (pc = "failed" => (entries = <<>> /\ (searchHtml # "html" \/ searchDoc.challenge)))
    /\ (pc = "done" =>
          /\ returned
          /\ error = ""
          /\ result.entries = <<>>
          /\ result.mirip = searchDoc.suggestions)

\* a returned not-found result that carries two suggestions
C13_Witness ==
  /\ returned
  /\ searchDoc.headings = <<>>
  /\ Len(result.mirip) = 2
  /\ fetchLog = <<>>

\* a row or title element of the details document that sets a field
Populates(page) ==
  \/ page.titleRoot # NULL
  \/ \E k \in 1..Len(page.body) :
       /\ page.body[k].kind = "row"
       /\ page.body[k].value \notin {"", "(Tidak tersedia)"}
       /\ page.body[k].label \in {"Eid", "Entri", "Id Homonim", "Jenis Entri",
                                  "Induk Kata", "Makna"}

IdHeadings == SelectSeq(searchDoc.headings, LAMBDA h : extractId(h) # NULL)

\* C18: a returned result has one entry per id-carrying heading, in heading
\* order, repeated headings included, whatever the detail fetches did.
C18_HeadingOrderKept ==
  (returned /\ entries # <<>>) =>
    /\ Len(result.entries) = Len(IdHeadings)
    /\ \A i \in 1..Len(IdHeadings) :
         /\ result.entries[i]["id"] = extractId(IdHeadings[i])
         /\ stubOf[i].nama = extractText(IdHeadings[i])

\* two different headings returned after one failed and one successful fetch
C18_Witness ==
  /\ returned
  /\ Len(result.entries) = 2
  /\ result.entries[1]["id"] # result.entries[2]["id"]
  /\ \E i, j \in 1..2 : detailOf[i].fetched /\ ~detailOf[j].fetched

\* lookup returned the entries of the headings of a search-results document
FromHeadings ==
  /\ pc = "lookup_done"
  /\ ~searchDoc.detailMarker
  /\ ~(searchDoc.headings = <<>> /\ searchDoc.notFound)
  /\ Len(result.entries) = Len(searchDoc.headings)

\* C14 (as claimed): no Meaning of a returned entry, of lookup or of
\* scrapeWord, has an empty definisi.
C14_Claim ==
  (pc \in {"lookup_done", "done"}) =>
    \A i \in 1..Len(result.entries) :
      "makna" \in DOMAIN result.entries[i] =>
        \A j \in 1..Len(result.entries[i]["makna"]) :
          result.entries[i]["makna"][j].definisi # ""

\* C16 (as claimed): a document with the "Detail Data" marker is parsed as a
\* details page, so lookup returns its entry and no suggestion list; the
\* not-found result is only given without the marker.
C16_Claim ==
  (pc = "lookup_done") =>
    /\ result.hasMirip => ~searchDoc.detailMarker
    /\ (searchDoc.detailMarker /\ Populates(searchDoc.page)) => Len(result.entries) = 1

\* positions of the list items that do not contain the propose marker
Retained(items) ==
  SelectSeq([i \in 1..Len(items) |-> i], LAMBDA i : ~IncludesPropose(items[i].text))

\* C17 (as claimed): the meanings of a list are numbered "1", "2", ..., "k".
C17_Claim ==
  FromHeadings =>
    \A k \in 1..Len(searchDoc.headings) :
      searchDoc.headings[k].hasList =>
        \A j \in 1..Len(result.entries[k]["makna"]) :
          result.entries[k]["makna"][j].nomor = toString(j)

\* C17 (amended): a list yields one Meaning per item without the propose
\* marker, in list order, and the nomor of each is the 1-based position of
\* its item among all items of the list, skipped ones included.
C17_NomorIsListPosition ==
  FromHeadings =>
    \A k \in 1..Len(searchDoc.headings) :
      searchDoc.headings[k].hasList =>
        LET makna == result.entries[k]["makna"]
            kept == Retained(searchDoc.headings[k].items)
        IN  /\ Len(makna) = Len(kept)
            /\ \A j \in 1..Len(makna) : makna[j].nomor = toString(kept[j])

\* a list whose propose item comes first: the only Meaning has nomor "2"
C17_Witness ==
  /\ FromHeadings
  /\ Len(searchDoc.headings) = 1
  /\ searchDoc.headings[1].hasList
  /\ Len(searchDoc.headings[1].items) = 2
  /\ IncludesPropose(searchDoc.headings[1].items[1].text)
  /\ Len(result.entries[1]["makna"]) = 1
  /\ result.entries[1]["makna"][1].nomor = "2"

\* text that still carries the homonym digit
HasHomonymDigit(nama) == nama \in {"kata1", "kata^1"}

CategoryTitle(ty) ==
  CASE ty = "kataTurunan" -> "Kata Turunan"
    [] ty = "gabunganKata" -> "Gabungan Kata"
    [] ty = "peribahasa" -> "Peribahasa"
    [] ty = "idiom" -> "Idiom"

\* the link texts of the sections of one category, in document order
RECURSIVE TypedLinks(_, _)
TypedLinks(secs, ty) ==
  IF secs = <<>> THEN <<>>
  ELSE (IF Head(secs).title = CategoryTitle(ty) /\ Head(secs).hasUl
        THEN Head(secs).links ELSE <<>>) \o TypedLinks(Tail(secs), ty)

\* the sections that follow the k-th heading
RECURSIVE Following(_, _)
Following(hs, k) == IF k > Len(hs) THEN <<>> ELSE hs[k].sections \o Following(hs, k + 1)

\* position of the first occurrence of x in list
FirstPos(list, x) == CHOOSE i \in 1..Len(list) : list[i] = x /\ \A j \in 1..(i - 1) : list[j] # x

\* list holds the non-empty texts of links once each, in order of first
\* occurrence
DedupOf(list, links) ==
  /\ \A a \in 1..Len(list) : list[a] # "" /\ Includes(links, list[a])
  /\ \A a \in 1..Len(links) : links[a] # "" => Includes(list, links[a])
  /\ \A a, b \in 1..Len(list) :
       a < b => list[a] # list[b] /\ FirstPos(links, list[a]) < FirstPos(links, list[b])

\* C20 (as claimed): an entry has terkait exactly when some category has a
\* link, and terkait then holds only the categories that have one.
C20_Claim ==
  FromHeadings =>
    \A k \in 1..Len(searchDoc.headings) :
      LET e == result.entries[k]
          secs == Following(searchDoc.headings, k)
      IN  /\ "terkait" \in DOMAIN e <=>
               \E ty \in RelatedTypes : \E a \in 1..Len(TypedLinks(secs, ty)) :
                 TypedLinks(secs, ty)[a] # ""
          /\ "terkait" \in DOMAIN e =>
               \A ty \in DOMAIN e["terkait"] : e["terkait"][ty] # <<>>

\* C20 (amended): an entry has terkait exactly when some category has a
\* link; terkait then holds all four categories, the empty ones as empty
\* lists, each with the link texts in document order, duplicates removed.
C20_RelatedAllCategories ==
  FromHeadings =>
    \A k \in 1..Len(searchDoc.headings) :
      LET e == result.entries[k]
          secs == Following(searchDoc.headings, k)
      IN  /\ "terkait" \in DOMAIN e <=>
               \E ty \in RelatedTypes : \E a \in 1..Len(TypedLinks(secs, ty)) :
                 TypedLinks(secs, ty)[a] # ""
          /\ "terkait" \in DOMAIN e =>
               /\ DOMAIN e["terkait"] = RelatedTypes
               /\ \A ty \in RelatedTypes : DedupOf(e["terkait"][ty], TypedLinks(secs, ty))

\* an entry whose derived words repeat across two sections and which has no
\* other category: terkait lists three derived words and three empty lists
C20_Witness ==
  /\ FromHeadings
  /\ Len(searchDoc.headings) = 1
  /\ "terkait" \in DOMAIN result.entries[1]
  /\ result.entries[1]["terkait"]["kataTurunan"] = <<"bercinta", "pencinta", "tercinta">>
  /\ result.entries[1]["terkait"]["idiom"] = <<>>

\* C22 (as claimed): a failure to parse a fetched details document never
\* ends the call with an error, and a details document parsed to null leaves
\* the stub as it was in the result list.
C22_Claim ==
  /\ pc = "failed" => error # "parseDetailsPage raised"
  /\ \A i \in 1..Len(detailedEntries) :
       (detailOf[i].fetched /\ detailOf[i].isNull) => detailedEntries[i] = stubOf[i]

\* C27: when scrapeWord or lookup has ended, by a return or by an error, no
\* browser that was launched is still open.
C27_SessionsClosed ==
  (pc \in {"done", "failed", "lookup_done", "lookup_failed"}) =>
    /\ openCount = 0
    /\ ~browser.launched

\* the call failed during a detail step, after sessions had been opened and
\* a details document fetched
C27_Witness ==
  /\ pc = "failed"
  /\ error = "parseDetailsPage raised"
  /\ fetchLog # <<>>
  /\ openCount = 0

\* C28 (as claimed): after a challenge on the search page was passed by hand,
\* the returned flag, suggestions and entries are those of the page behind
\* the challenge.
C28_Claim ==
  (challengeSolved /\ pc \in {"done", "lookup_done"}) =>
    /\ result.authenticated = resolvedDoc.logout
    /\ Len(result.entries) = Len(resolvedDoc.headings)
    /\ pc = "done" => result.mirip = resolvedDoc.suggestions

\* C21 (as claimed): the JSON object printed for a word that was looked up,
\* with or without --scrape, has the top-level keys kata, entri and mirip.
C21_Claim ==
  (stdout.kind = "json" /\ returned) => {"kata", "entri", "mirip"} \subseteq stdout.keys

\* C25 (as claimed): on a search-results page an entry whose heading has no
\* list, whose plain text gave no meaning and whose name contains a space
\* gets its meanings from the compound-word handling.
C25_Claim ==
  (pc = "lookup_done" /\ Len(searchDoc.headings) = 1 /\ Len(result.entries) = 1) =>
    LET h == searchDoc.headings[1]
    IN  (~h.hasList /\ PlainTextMeanings(h.content) = <<>>
         /\ IncludesSpace(result.entries[1]["nama"])) =>
          result.entries[1]["makna"] = extractCompoundWordMeanings(h)

\* C25 (amended): on a search-results page an entry whose heading has no list
\* gets exactly the meanings of the plain-text fallback, also when its name
\* contains a space; the compound-word handling is not applied there.
C25_PlainTextOnly ==
  (pc = "lookup_done" /\ Len(searchDoc.headings) = 1 /\ Len(result.entries) = 1) =>
    LET h == searchDoc.headings[1]
    IN  ~h.hasList => result.entries[1]["makna"] = PlainTextMeanings(h.content)

\* a compound entry without list and text, followed later by an <ol>, was
\* returned with no meanings
C25_Witness ==
  /\ pc = "lookup_done"
  /\ Len(result.entries) = 1
  /\ result.entries[1]["nama"] = "cinta kasih"
  /\ ~searchDoc.headings[1].hasList
  /\ searchDoc.headings[1].content = ""
  /\ searchDoc.headings[1].olAfter = <<ItemSuka>>
  /\ result.entries[1]["makna"] = <<>>

\* ------------------------------------------- details rows, read declaratively
\* the rows the row loop does not skip
ValidRows(body) ==
  SelectSeq(body, LAMBDA e : e.kind = "row" /\ e.value \notin {"", "(Tidak tersedia)"})

MaknaAt(rows) == {i \in 1..Len(rows) : rows[i].label = "Makna"}

NthMakna(rows, k) ==
  CHOOSE i \in MaknaAt(rows) : Cardinality({j \in MaknaAt(rows) : j <= i}) = k

\* the rows between the k-th Makna row and the next one
SegmentOf(rows, k) ==
  SubSeq(rows, NthMakna(rows, k) + 1,
         IF k < Cardinality(MaknaAt(rows)) THEN NthMakna(rows, k + 1) - 1 ELSE Len(rows))

LastKelas(seg) ==
  LET ks == SelectSeq(seg, LAMBDA e : e.label = "Kelas Kata")
  IN  IF ks = <<>> THEN <<>> ELSE ParseKelasKata(ks[Len(ks)].value)

SegContoh(seg) == SelectSeq(seg, LAMBDA e : e.label = "Contoh")

H4At(body) == {i \in 1..Len(body) : body[i].kind = "h4"}

\* the value row of the section whose heading is at position i
ValueOf(body, i) == SectionText(SubSeq(body, i + 1, Len(body)))

\* a section with a non-placeholder value row and 1 <= M <= number of meanings
ValidSections(body) ==
  {i \in H4At(body) :
     /\ ValueOf(body, i) \notin {"", "(Tidak tersedia)"}
     /\ body[i].m >= 1
     /\ body[i].m <= Cardinality(MaknaAt(ValidRows(body)))}

\* a details document was parsed and its entry returned by lookup
DetailReturned ==
  /\ pc = "lookup_done"
  /\ searchDoc.detailMarker
  /\ ~searchDoc.notFound
  /\ Len(result.entries) = 1
  /\ Has(result.entries[1], "makna")

\* C23: the meanings are the non-skipped Makna rows in order; each meaning has
\* the class of the last Kelas Kata row and, in order, the examples of the
\* Contoh rows between its Makna row and the next one, and nothing else from
\* the rows; without a Makna row the rows of these three labels leave the
\* entry empty.
C23_RowsAttachToNearestMakna ==
  (pc = "lookup_done" /\ searchDoc \in DetailDocs) =>
    LET body == searchDoc.page.body
        rows == ValidRows(body)
        n == Cardinality(MaknaAt(rows))
    IN  IF n = 0 THEN result.entries = <<>>
        ELSE /\ Len(result.entries) = 1
             /\ LET mk == result.entries[1]["makna"]
                IN  /\ Len(mk) = n
                    /\ \A k \in 1..n :
                         LET seg == SegmentOf(rows, k)
                             ex == SegContoh(seg)
                             targeting == {i \in H4At(body) : body[i].m = k}
                         IN  /\ mk[k].definisi = rows[NthMakna(rows, k)].value
                             /\ mk[k].kelasKata = LastKelas(seg)
                             /\ Len(mk[k].contoh) >= Len(ex)
                             /\ Len(mk[k].contoh) <= Len(ex) + Cardinality(targeting)
                             /\ \A i \in 1..Len(ex) :
                                  /\ mk[k].contoh[i].nomor = i
                                  /\ \/ mk[k].contoh[i].teks = ex[i].value
                                     \/ \E j \in targeting : body[j].n = i

\* two meanings were built; the class and the example rows went to the first
C23_Witness ==
  /\ DetailReturned
  /\ Len(result.entries[1]["makna"]) = 2
  /\ result.entries[1]["makna"][1].kelasKata # <<>>
  /\ result.entries[1]["makna"][1].contoh # <<>>
  /\ result.entries[1]["makna"][2].contoh = <<>>
  /\ result.entries[1]["makna"][2].kelasKata = <<>>

\* C24 (as claimed): for every "Contoh #M-N" section with a non-placeholder
\* value row and 1 <= M <= number of meanings, Meaning M has exactly one
\* Example with ordinal N and its text is the section's value without the
\* bracket markers.
C24_Claim ==
  DetailReturned =>
    LET body == searchDoc.page.body
        mk == result.entries[1]["makna"]
    IN  \A i \in ValidSections(body) :
          LET c == mk[body[i].m].contoh
              hits == {j \in 1..Len(c) : c[j].nomor = body[i].n}
          IN  /\ Cardinality(hits) = 1
              /\ \A j \in hits : c[j].teks = StripBrackets(ValueOf(body, i))

\* C24 (amended): Meaning M has exactly one Example with ordinal N, and its
\* text is the value, without the bracket markers, of the last such section
\* numbered M-N.
C24_LastSectionWins ==
  DetailReturned =>
    LET body == searchDoc.page.body
        mk == result.entries[1]["makna"]
    IN  \A i \in ValidSections(body) :
          LET c == mk[body[i].m].contoh
              hits == {j \in 1..Len(c) : c[j].nomor = body[i].n}
              later == {j \in ValidSections(body) :
                          j > i /\ body[j].m = body[i].m /\ body[j].n = body[i].n}
          IN  /\ Cardinality(hits) = 1
              /\ later = {} => \A j \in hits : c[j].teks = StripBrackets(ValueOf(body, i))

\* a section replaced the text of the example its own value row had created
C24_Witness ==
  /\ DetailReturned
  /\ ValidSections(searchDoc.page.body) # {}
  /\ result.entries[1]["makna"][1].contoh = <<[nomor |-> 1, teks |-> "cinta kasih"]>>

\* C26 (as claimed): parseDetailsPage never raises for a "Contoh #M-N"
\* heading; a section whose M is 0 or greater than the number of meanings,
\* or that appears when there are no meanings, is ignored and the entry built
\* from the rows is returned.
C26_Claim ==
  /\ (pc = "lookup_failed" /\ searchDoc \in DetailDocs) => error # "parseDetailsPage raised"
  /\ (pc = "lookup_done" /\ searchDoc \in DetailDocs
      /\ ValidSections(searchDoc.page.body) = {}) =>
       LET rows == ProcessRows(searchDoc.page.body, EmptyObj)
       IN  result.entries = IF DOMAIN rows = {} THEN <<>> ELSE <<rows>>

\* -------------------------------------------------------------- cookie store
NoDuplicates(list) == \A i, j \in 1..Len(list) : list[i] = list[j] => i = j

Without(list, v) == SelectSeq(list, LAMBDA c : c # v)

\* C29: the stored list never holds a value twice; addCookie of a value that
\* is stored leaves the list as it was, and of a value that is not stored
\* appends it at the end (the value being the one extracted from a full
\* cookie string).
C29_NoDuplicatesAddIdempotent ==
  /\ NoDuplicates(Stored(cookieFile))
  /\ (lastCall.op = "add" /\ lastCall.ret) =>
       LET value == ExtractValue(lastCall.arg)
       IN  Stored(cookieFile) =
             IF Includes(lastCall.before, value) THEN lastCall.before
             ELSE Append(lastCall.before, value)

\* a value was added a second time, after another one, and the list stayed
C29_Witness ==
  /\ lastCall.op = "add"
  /\ lastCall.ret
  /\ Len(lastCall.before) = 2
  /\ lastCall.before[1] = ExtractValue(lastCall.arg)
  /\ Stored(cookieFile) = lastCall.before

\* C30 (as claimed): removeCookie(v) removes only the cookies equal to v; it
\* returns true exactly when the list became shorter; and removing a value
\* just added with addCookie(v) restores the prior content.
C30_Claim ==
  (lastCall.op = "remove" /\ ~lastCall.threw /\ ~lastCall.failed) =>
    /\ Stored(cookieFile) = Without(lastCall.before, lastCall.arg)
    /\ lastCall.ret <=> Len(Stored(cookieFile)) < Len(lastCall.before)
    /\ (lastCall.prevOp = "add" /\ lastCall.prevRet /\ lastCall.prevArg = lastCall.arg) =>
         Stored(cookieFile) = lastCall.prevBefore

\* C30 (amended): removeCookie(v) removes the cookies equal to v or, when none
\* is equal and v is longer than ten characters, the cookies that start with
\* the first ten characters of v, and leaves the others in order; it returns
\* true exactly when the list became shorter; removing a bare value just
\* added that was not stored before restores the prior content.
C30_RemoveExactOrPrefix ==
  /\ (lastCall.op = "remove" /\ ~lastCall.threw /\ ~lastCall.failed) =>
       /\ Stored(cookieFile) =
            IF Includes(lastCall.before, lastCall.arg) \/ ~LongerThan10(lastCall.arg)
            THEN Without(lastCall.before, lastCall.arg)
            ELSE SelectSeq(lastCall.before,
                           LAMBDA c : ~StartsWith(c, Prefix10(lastCall.arg)))
       /\ (lastCall.prevOp = "add" /\ lastCall.prevRet /\ lastCall.prevArg = lastCall.arg
           /\ ExtractValue(lastCall.arg) = lastCall.arg
           /\ ~Includes(lastCall.prevBefore, lastCall.arg)) =>
            Stored(cookieFile) = lastCall.prevBefore
  /\ lastCall.op = "remove" =>
       (lastCall.ret <=> Len(Stored(cookieFile)) < Len(lastCall.before))

\* a value that is not stored removed the two stored cookies that share its
\* first ten characters, and left the third
C30_Witness ==
  /\ lastCall.op = "remove"
  /\ lastCall.ret
  /\ lastCall.arg = "0123456789CCCC"
  /\ Len(lastCall.before) = 3
  /\ Stored(cookieFile) = <<"abc">>

====
